---- MODULE Spec2Model ----
(***************************************************************************)
(* Vision inspection system: the inspection engine (load_program,          *)
(* run_inspection_cycle, process_tools, aggregate_results,                 *)
(* set_output_states, run_continuous), the tool processors it drives, the  *)
(* GPIO output manager, and the worker loop that calls the engine.         *)
(*                                                                         *)
(* Optional values (Python None) are sequences of length 0 or 1.           *)
(* A matching rate is the exact fraction num/den (Python float division).  *)
(***************************************************************************)
EXTENDS Integers, Sequences, FiniteSets, TLC

\* ------------------------------------------------------------------ bounds
MaxTools == 2
MaxCycles == 3
ImgW == 3
ImgH == 2

OK == "OK"
NG == "NG"
NoValue == << >>
Some(v) == << v >>
IsNone(o) == Len(o) = 0
Val(o) == o[1]

Max2(a, b) == IF a >= b THEN a ELSE b
Min2(a, b) == IF a <= b THEN a ELSE b

\* ------------------------------------------------------------------ images
\* An image is the set of its white pixels (pixels above the binary threshold
\* fixed at load); (0,0) is the top-left pixel.
Grid == (0 .. ImgW - 1) \X (0 .. ImgH - 1)
MasterWhite == { <<0, 0>> }
Patterns == { MasterWhite, {}, Grid }

\* What the opaque OpenCV calls find in a captured buffer.
OutlineOutcomes == { [raise |-> TRUE, rate |-> 0],
                     [raise |-> FALSE, rate |-> 0],
                     [raise |-> FALSE, rate |-> 100] }
PosOutcomes == { [raise |-> TRUE, dx |-> 0, dy |-> 0, conf |-> 0],
                 [raise |-> FALSE, dx |-> 0, dy |-> 0, conf |-> 100],
                 [raise |-> FALSE, dx |-> 1, dy |-> -1, conf |-> 90],
                 [raise |-> FALSE, dx |-> 1, dy |-> -1, conf |-> 40] }
Buffers == [ white : Patterns, outline : OutlineOutcomes, pos : PosOutcomes ]

\* ------------------------------------------------------------------ programs
AreaRoi == [x |-> 0, y |-> 0, width |-> 2, height |-> 1]
OutlineRoi == [x |-> 1, y |-> 0, width |-> 2, height |-> 2]
PosRoi == [x |-> 0, y |-> 0, width |-> 1, height |-> 1]

ToolConfigs ==
    { [type |-> "area", roi |-> AreaRoi, threshold |-> 50, upperLimit |-> u] :
          u \in { NoValue, Some(100) } }
    \cup { [type |-> "outline", roi |-> OutlineRoi, threshold |-> 50, upperLimit |-> Some(80)] }
    \cup { [type |-> "position_adjust", roi |-> PosRoi, threshold |-> 70, upperLimit |-> NoValue] }

RECURSIVE SeqsUpTo(_, _)
SeqsUpTo(S, n) ==
    IF n = 0 THEN { << >> }
    ELSE LET shorter == SeqsUpTo(S, n - 1)
         IN shorter \cup { Append(s, e) : s \in { t \in shorter : Len(t) = n - 1 }, e \in S }

\* ProgramManager.validate_program: at most MAX_POSITION_TOOLS position tools.
MAX_POSITION_TOOLS == 1
PositionCount(ts) == Cardinality({ i \in 1 .. Len(ts) : ts[i].type = "position_adjust" })
ToolLists == { ts \in SeqsUpTo(ToolConfigs, MaxTools) : PositionCount(ts) <= MAX_POSITION_TOOLS }

\* The master image file: missing, or an image with or without contours
\* in the outline ROI.
MasterImages == { NoValue,
                  Some([white |-> MasterWhite, contours |-> TRUE]),
                  Some([white |-> MasterWhite, contours |-> FALSE]) }

\* One output configuration with every kind of entry: the reserved names,
\* each valid condition, and "Not Used".
OutputConfigs == { << [name |-> "OUT1", cond |-> "Always OFF"],
                      [name |-> "OUT2", cond |-> "NG"],
                      [name |-> "OUT3", cond |-> "Always ON"],
                      [name |-> "OUT4", cond |-> "OK"],
                      [name |-> "OUT5", cond |-> "NG"],
                      [name |-> "OUT6", cond |-> "Always ON"],
                      [name |-> "OUT7", cond |-> "Always OFF"],
                      [name |-> "OUT8", cond |-> "Not Used"] >> }

ProgramConfigs == [ masterImage : MasterImages, tools : ToolLists,
                    triggerType : { "internal", "external" },
                    outputs : OutputConfigs ]

\* ------------------------------------------------------------------ tools
\* Mutant: x and y are clamped to the image's width and height, not to the
\* last column and row.
extract_roi_clamp_to_size(roi) ==
    LET x == Max2(0, Min2(roi.x, ImgW))
        y == Max2(0, Min2(roi.y, ImgH))
        w == Min2(roi.width, ImgW - x)
        h == Min2(roi.height, ImgH - y)
    IN [x |-> x, y |-> y, width |-> w, height |-> h]

\* BaseToolProcessor.extract_roi: the rectangle actually read from an image.
extract_roi(roi) ==
    LET x == Max2(0, Min2(roi.x, ImgW - 1))
        y == Max2(0, Min2(roi.y, ImgH - 1))
        w == Min2(roi.width, ImgW - x)
        h == Min2(roi.height, ImgH - y)
    IN [x |-> x, y |-> y, width |-> w, height |-> h]

\* image[y:y+h, x:x+w]
RoiPixels(roi) ==
    LET r == extract_roi(roi)
    IN { p \in Grid : /\ r.x <= p[1] /\ p[1] < r.x + r.width
                      /\ r.y <= p[2] /\ p[2] < r.y + r.height }

\* np.sum(binary == 255) over the ROI
WhiteCount(white, roi) == Cardinality(RoiPixels(roi) \cap white)

\* Mutant: the ratio is not capped at 200.
area_matching_rate_uncapped(tool, white) ==
    IF tool.master_count = 0 THEN [num |-> 0, den |-> 1]
    ELSE [num |-> WhiteCount(white, tool.roi) * 100, den |-> tool.master_count]

\* Mutant: the test image's pixels are counted over the whole image.
area_matching_rate_whole_image(tool, white) ==
    IF tool.master_count = 0 THEN [num |-> 0, den |-> 1]
    ELSE LET test == Cardinality(white)
         IN IF test * 100 > 200 * tool.master_count
            THEN [num |-> 200, den |-> 1]
            ELSE [num |-> test * 100, den |-> tool.master_count]

\* AreaToolProcessor.calculate_matching_rate: min(200, test / master * 100)
area_matching_rate(tool, white) ==
    IF tool.master_count = 0 THEN [num |-> 0, den |-> 1]
    ELSE LET test == WhiteCount(white, tool.roi)
         IN IF test * 100 > 200 * tool.master_count
            THEN [num |-> 200, den |-> 1]
            ELSE [num |-> test * 100, den |-> tool.master_count]

\* ColorAreaToolProcessor.calculate_matching_rate: the same ratio over the
\* pixels inside the colour range fixed at load.
color_area_matching_rate(tool, colored) ==
    IF tool.master_count = 0 THEN [num |-> 0, den |-> 1]
    ELSE LET test == WhiteCount(colored, tool.roi)
         IN IF test * 100 > 200 * tool.master_count
            THEN [num |-> 200, den |-> 1]
            ELSE [num |-> test * 100, den |-> tool.master_count]

\* EdgePixelsToolProcessor.calculate_matching_rate: the same ratio over the
\* pixels Canny marks as edges.
edge_matching_rate(tool, edges) ==
    IF tool.master_count = 0 THEN [num |-> 0, den |-> 1]
    ELSE LET test == WhiteCount(edges, tool.roi)
         IN IF test * 100 > 200 * tool.master_count
            THEN [num |-> 200, den |-> 1]
            ELSE [num |-> test * 100, den |-> tool.master_count]

\* Mutant: the single-threshold comparison is strict.
judge_strict_floor(tool, rate) ==
    IF ~IsNone(tool.upper_limit)
    THEN IF /\ tool.threshold * rate.den <= rate.num
            /\ rate.num <= Val(tool.upper_limit) * rate.den
         THEN OK ELSE NG
    ELSE IF rate.num > tool.threshold * rate.den THEN OK ELSE NG

\* BaseToolProcessor.judge; the judge methods of AreaToolProcessor,
\* ColorAreaToolProcessor and EdgePixelsToolProcessor are the same text, and
\* OutlineToolProcessor inherits it.
judge(tool, rate) ==
    IF ~IsNone(tool.upper_limit)
    THEN IF /\ tool.threshold * rate.den <= rate.num
            /\ rate.num <= Val(tool.upper_limit) * rate.den
         THEN OK ELSE NG
    ELSE IF rate.num >= tool.threshold * rate.den THEN OK ELSE NG

\* PositionAdjustmentToolProcessor.judge
position_judge(tool, conf) ==
    IF conf >= tool.threshold THEN OK ELSE NG

\* InspectionEngine.TOOL_CLASSES
TOOL_CLASSES == { "outline", "area", "color_area", "edge_detection", "position_adjust" }

\* tool.configure(roi=roi, threshold=threshold, upper_limit=upper_limit) as
\* called by load_program: PositionAdjustmentToolProcessor.configure has no
\* upper_limit parameter and no **kwargs, so the call raises TypeError.
ConfigureRaises(tc) == tc.type = "position_adjust"

\* extract_master_features raises: the outline tool when findContours
\* returns nothing for the master ROI.
ExtractRaises(tc, master) == tc.type = "outline" /\ ~master.contours

\* The tool object after configure and extract_master_features.  idx is the
\* position of the configuration entry whose roi dict the tool holds
\* (configure stores the reference, not a copy).  OutlineToolProcessor's
\* extract_master_features re-runs configure(roi, threshold) and so resets
\* upper_limit to None; the area tool passes its upper_limit through.
LoadedTool(tc, i, master) ==
    [ tool_type |-> tc.type, idx |-> i, roi |-> tc.roi, threshold |-> tc.threshold,
      upper_limit |-> IF tc.type = "outline" THEN NoValue ELSE tc.upperLimit,
      master_count |-> IF tc.type = "area" THEN WhiteCount(master.white, tc.roi) ELSE 0 ]

\* InspectionEngine.load_program, the loop over tools_config from entry i on;
\* eng is [tools, position_tool] so far.
RECURSIVE LoadFrom(_, _, _, _)
LoadFrom(tcs, i, master, eng) ==
    IF i > Len(tcs) THEN eng
    ELSE LET tc == tcs[i]
         IN IF tc.type \notin TOOL_CLASSES THEN LoadFrom(tcs, i + 1, master, eng)
            ELSE IF ConfigureRaises(tc) \/ ExtractRaises(tc, master)
            THEN LoadFrom(tcs, i + 1, master, eng)   \* except Exception: log only
            ELSE IF tc.type = "position_adjust"
            THEN IF ~IsNone(eng.position_tool)
                 THEN LoadFrom(tcs, i + 1, master, eng)
                 ELSE LoadFrom(tcs, i + 1, master,
                               [eng EXCEPT !.position_tool = Some(LoadedTool(tc, i, master))])
            ELSE LoadFrom(tcs, i + 1, master,
                          [eng EXCEPT !.tools = Append(@, LoadedTool(tc, i, master))])

load_program(config) ==
    LoadFrom(config.tools, 1, Val(config.masterImage),
             [tools |-> << >>, position_tool |-> NoValue])

\* load_program raises before any tool is built: no master image path, or
\* cv2.imread returns None.
LoadRaises(config) == IsNone(config.masterImage)

\* BaseToolProcessor.process for a detection tool: does it raise?
ProcessRaises(tool, buf) == tool.tool_type = "outline" /\ buf.outline.raise

\* BaseToolProcessor.process: the result dictionary (name, threshold and
\* upper_limit keys left out).
process(tool, buf) ==
    LET rate == IF tool.tool_type = "outline"
                THEN [num |-> buf.outline.rate, den |-> 1]
                ELSE area_matching_rate(tool, buf.white)
    IN [ tool_type |-> tool.tool_type, status |-> judge(tool, rate),
         num |-> rate.num, den |-> rate.den, error |-> "", offset |-> NoValue ]

\* Mutant: a tool whose process raises is logged and gets no entry.
process_tools_skip_failed(ts, buf) ==
    LET ran == SelectSeq(ts, LAMBDA t : ~ProcessRaises(t, buf))
    IN [ i \in 1 .. Len(ran) |-> process(ran[i], buf) ]

\* InspectionEngine.process_tools: one entry per tool, in order; an
\* exception becomes an NG entry carrying the error.
process_tools(ts, buf) ==
    [ i \in 1 .. Len(ts) |->
        IF ProcessRaises(ts[i], buf)
        THEN [ tool_type |-> ts[i].tool_type, status |-> NG, num |-> 0, den |-> 1,
               error |-> "process failed", offset |-> NoValue ]
        ELSE process(ts[i], buf) ]

\* PositionAdjustmentToolProcessor.process
position_process(tool, buf) ==
    [ tool_type |-> "position_adjust", status |-> position_judge(tool, buf.pos.conf),
      num |-> buf.pos.conf, den |-> 1, error |-> "",
      offset |-> Some([dx |-> buf.pos.dx, dy |-> buf.pos.dy]) ]

\* Mutant: the loop returns on its first entry, OK or NG.
aggregate_results_first_only(results) ==
    IF Len(results) > 0 /\ results[1].status = NG THEN NG ELSE OK

\* InspectionEngine.aggregate_results
aggregate_results(results) ==
    IF \E i \in 1 .. Len(results) : results[i].status = NG THEN NG ELSE OK

\* ------------------------------------------------------------------ outputs
\* GPIOController.DEFAULT_OUTPUT_PINS has eight entries: outputs 1..8.
Outputs == 1 .. 8
\* int(output_name[3:]) for the names validate_program accepts
OutputNumber(name) ==
    CASE name = "OUT1" -> 1 [] name = "OUT2" -> 2 [] name = "OUT3" -> 3
      [] name = "OUT4" -> 4 [] name = "OUT5" -> 5 [] name = "OUT6" -> 6
      [] name = "OUT7" -> 7 [] name = "OUT8" -> 8

\* GPIOController.set_output
set_output(states, n, level) ==
    IF n \notin Outputs THEN states ELSE [states EXCEPT ![n] = level]

\* Mutant: the loop does not skip the reserved names OUT1, OUT2, OUT3.
RECURSIVE ApplyCustom_drives_reserved(_, _, _, _)
ApplyCustom_drives_reserved(states, cfg, i, status) ==
    IF i > Len(cfg) THEN states
    ELSE LET e == cfg[i]
             level == CASE e.cond = "Always ON" -> TRUE
                        [] e.cond = "Always OFF" -> FALSE
                        [] e.cond = "OK" -> (status = OK)
                        [] e.cond = "NG" -> (status = NG)
                        [] OTHER -> FALSE
         IN ApplyCustom_drives_reserved(set_output(states, OutputNumber(e.name), level),
                                        cfg, i + 1, status)

\* OutputManager.apply_inspection_result, the loop over custom_output_config
\* from entry i on.
RECURSIVE ApplyCustom(_, _, _, _)
ApplyCustom(states, cfg, i, status) ==
    IF i > Len(cfg) THEN states
    ELSE LET e == cfg[i]
             level == CASE e.cond = "Always ON" -> TRUE
                        [] e.cond = "Always OFF" -> FALSE
                        [] e.cond = "OK" -> (status = OK)
                        [] e.cond = "NG" -> (status = NG)
                        [] OTHER -> FALSE
         IN IF e.name \notin { "OUT1", "OUT2", "OUT3" }
            THEN ApplyCustom(set_output(states, OutputNumber(e.name), level), cfg, i + 1, status)
            ELSE ApplyCustom(states, cfg, i + 1, status)

\* ------------------------------------------------------------------ state
VARIABLES
    program_config,   \* engine.program_config: the dict the engine was built from
    loaded_config,    \* history: program_config as it was when the engine was built
    tools,            \* engine.tools
    position_tool,    \* engine.position_tool
    quality_checked,  \* hasattr(engine, '_quality_checked')
    output_states,    \* gpio.output_states
    camera_open,      \* the capture handle is held
    kind,             \* which loop drives the engine
    pc,               \* position of the worker
    stop_flag,        \* the stop flag of the loop
    image,            \* the captured buffer of the cycle in progress
    position_result,  \* position_result of the cycle in progress
    tool_results,     \* tool_results of the cycle in progress
    overall_status,   \* overall_status of the cycle in progress
    exc,              \* the exception run_inspection_cycle is raising, "" if none
    outcome,          \* what the last finished cycle returned, None if it raised
    cycles,           \* history: number of cycles started
    inspection_count, \* inspection_count of the loop
    pulse_log,        \* history: [cycle, output] of every pulse fired
    callback_log,     \* history: cycle number of every result callback
    call,             \* a method of a tool object called directly: its arguments
    ret,              \* what that call returned, None while it has not
    connected,        \* the websocket client of the session is connected
    active_inspections, \* active_inspections[session_id]: None, or the thread whose stop flag it holds
    threads,          \* the inspection threads started for the session, in order
    stop_sleeping,    \* a stop_inspection handler is in its time.sleep(0.5)
    emitted           \* the last event a handler emitted to the session

vars == << program_config, loaded_config, tools, position_tool, quality_checked,
           output_states, camera_open, kind, pc, stop_flag, image, position_result,
           tool_results, overall_status, exc, outcome, cycles, inspection_count,
           pulse_log, callback_log, call, ret,
           connected, active_inspections, threads, stop_sleeping, emitted >>

engine_vars == << program_config, loaded_config, tools, position_tool, quality_checked >>
cycle_vars == << image, position_result, tool_results, overall_status, exc >>
log_vars == << cycles, inspection_count, pulse_log, callback_log >>
session_vars == << connected, active_inspections, threads, stop_sleeping, emitted >>
call_vars == << call, ret, session_vars >>

\* The websocket module as imported: no session has started an inspection.
NoSession ==
    /\ connected = TRUE
    /\ active_inspections = NoValue
    /\ threads = << >>
    /\ stop_sleeping = FALSE
    /\ emitted = ""

BUSY == 1
OUT_OK == 2
OUT_NG == 3

LoopKinds == { "run_continuous", "inspection_loop" }

\* A worker that has not built its engine yet.
Init ==
    /\ program_config \in ProgramConfigs
    /\ loaded_config = program_config
    /\ tools = << >>
    /\ position_tool = NoValue
    /\ quality_checked = FALSE
    /\ output_states = [n \in Outputs |-> FALSE]
    /\ camera_open = FALSE
    /\ kind \in LoopKinds
    /\ pc = "new"
    /\ stop_flag = FALSE
    /\ image = NoValue
    /\ position_result = NoValue
    /\ tool_results = << >>
    /\ overall_status = ""
    /\ exc = ""
    /\ outcome = NoValue
    /\ cycles = 0
    /\ inspection_count = 0
    /\ pulse_log = << >>
    /\ callback_log = << >>
    /\ call = NoValue
    /\ ret = NoValue
    /\ NoSession

\* InspectionEngine.__init__: hardware objects, then load_program.  When
\* load_program raises, the half-built engine is dropped by the handler and
\* its __del__ runs cleanup: no handle is left open.
Construct ==
    /\ pc = "new"
    /\ IF LoadRaises(program_config)
       THEN /\ pc' = "crashed"
            /\ UNCHANGED << tools, position_tool, camera_open >>
       ELSE /\ tools' = load_program(program_config).tools
            /\ position_tool' = load_program(program_config).position_tool
            /\ camera_open' = TRUE
            /\ pc' = "check"
    /\ UNCHANGED << program_config, loaded_config, quality_checked, output_states, kind,
                    stop_flag, outcome >>
    /\ UNCHANGED cycle_vars
    /\ UNCHANGED log_vars
    /\ UNCHANGED call_vars

\* The stop flag is set from outside the worker (stop_flag.set()).
SetStop ==
    /\ ~stop_flag
    /\ pc \notin { "new", "crashed", "done" }
    /\ stop_flag' = TRUE
    /\ UNCHANGED << output_states, camera_open, kind, pc, outcome >>
    /\ UNCHANGED engine_vars
    /\ UNCHANGED cycle_vars
    /\ UNCHANGED log_vars
    /\ UNCHANGED call_vars

\* run_continuous: "if stop_flag and stop_flag(): break";
\* inspection_loop: "while not stop_flag.is_set()".
LoopCheck ==
    /\ pc = "check"
    /\ IF stop_flag THEN pc' = "exit"
       ELSE /\ cycles < MaxCycles
            /\ pc' = "begin"
    /\ UNCHANGED << output_states, camera_open, kind, stop_flag, outcome >>
    /\ UNCHANGED engine_vars
    /\ UNCHANGED cycle_vars
    /\ UNCHANGED log_vars
    /\ UNCHANGED call_vars

\* Mutant: the set_busy(True) call is missing from step 1.
StartCycle_busy_not_raised ==
    /\ pc = "begin"
    /\ cycles' = cycles + 1
    /\ image' = NoValue
    /\ position_result' = NoValue
    /\ tool_results' = << >>
    /\ overall_status' = ""
    /\ exc' = ""
    /\ outcome' = NoValue
    /\ pc' = "capture"
    /\ UNCHANGED << output_states, camera_open, kind, stop_flag, inspection_count,
                    pulse_log, callback_log >>
    /\ UNCHANGED engine_vars
    /\ UNCHANGED call_vars

\* run_inspection_cycle, step 1: set_busy(True).
StartCycle ==
    /\ pc = "begin"
    /\ output_states' = set_output(output_states, BUSY, TRUE)
    /\ cycles' = cycles + 1
    /\ image' = NoValue
    /\ position_result' = NoValue
    /\ tool_results' = << >>
    /\ overall_status' = ""
    /\ exc' = ""
    /\ outcome' = NoValue
    /\ pc' = "capture"
    /\ UNCHANGED << camera_open, kind, stop_flag, inspection_count, pulse_log, callback_log >>
    /\ UNCHANGED engine_vars
    /\ UNCHANGED call_vars

\* The buffers that differ in something a loaded tool reads.
RelevantBuffers ==
    { b \in Buffers :
        /\ (\A i \in 1 .. Len(tools) : tools[i].tool_type # "area") => b.white = {}
        /\ (\A i \in 1 .. Len(tools) : tools[i].tool_type # "outline")
               => b.outline = [raise |-> FALSE, rate |-> 0]
        /\ IsNone(position_tool) => b.pos = [raise |-> FALSE, dx |-> 0, dy |-> 0, conf |-> 100] }

\* Mutant: a failed capture raises the NG output before it raises the error.
Capture_failure_signals_ng ==
    /\ pc = "capture"
    /\ \/ /\ image' = NoValue
          /\ exc' = "Failed to capture image"
          /\ output_states' = set_output(output_states, OUT_NG, TRUE)
          /\ pc' = "finally"
       \/ \E b \in RelevantBuffers :
             /\ image' = Some(b)
             /\ exc' = exc
             /\ output_states' = output_states
             /\ pc' = "quality"
    /\ UNCHANGED << camera_open, kind, stop_flag, outcome,
                    position_result, tool_results, overall_status >>
    /\ UNCHANGED engine_vars
    /\ UNCHANGED log_vars
    /\ UNCHANGED call_vars

\* Step 2: camera.capture_image; None raises RuntimeError.
Capture ==
    /\ pc = "capture"
    /\ \/ /\ image' = NoValue
          /\ exc' = "Failed to capture image"
          /\ pc' = "finally"
       \/ \E b \in RelevantBuffers :
             /\ image' = Some(b)
             /\ exc' = exc
             /\ pc' = "quality"
    /\ UNCHANGED << output_states, camera_open, kind, stop_flag, outcome,
                    position_result, tool_results, overall_status >>
    /\ UNCHANGED engine_vars
    /\ UNCHANGED log_vars
    /\ UNCHANGED call_vars

\* The quality consistency check: on the first cycle _quality_checked is
\* set and self.master_image is read; the engine never assigns that
\* attribute (load_program keeps the master image in a local), so the read
\* raises AttributeError.
QualityCheck ==
    /\ pc = "quality"
    /\ IF ~quality_checked
       THEN /\ quality_checked' = TRUE
            /\ exc' = "no attribute master_image"
            /\ pc' = "finally"
       ELSE /\ quality_checked' = quality_checked
            /\ exc' = exc
            /\ pc' = "position"
    /\ UNCHANGED << program_config, loaded_config, tools, position_tool >>
    /\ UNCHANGED << output_states, camera_open, kind, stop_flag, outcome,
                    image, position_result, tool_results, overall_status >>
    /\ UNCHANGED log_vars
    /\ UNCHANGED call_vars

\* tool.roi['x'] += dx; tool.roi['y'] += dy
ShiftRoi(roi, off) == [roi EXCEPT !.x = @ + off.dx, !.y = @ + off.dy]

\* Mutant: the ROI shift is not nested under the test of the position
\* result's status.
PositionStep_shifts_on_ng ==
    /\ pc = "position"
    /\ IF IsNone(position_tool)
       THEN /\ pc' = "detect"
            /\ UNCHANGED << position_result, exc, tools, program_config >>
       ELSE IF Val(image).pos.raise
       THEN /\ exc' = "position tool failed"
            /\ pc' = "finally"
            /\ UNCHANGED << position_result, tools, program_config >>
       ELSE LET res == position_process(Val(position_tool), Val(image))
                off == Val(res.offset)
                shift == off.dx # 0 \/ off.dy # 0
            IN /\ position_result' = Some(res)
               /\ tools' = IF shift
                           THEN [i \in 1 .. Len(tools) |->
                                    [tools[i] EXCEPT !.roi = ShiftRoi(@, off)]]
                           ELSE tools
               /\ program_config' =
                      IF shift
                      THEN [program_config EXCEPT !.tools =
                              [j \in 1 .. Len(program_config.tools) |->
                                 IF \E i \in 1 .. Len(tools) : tools[i].idx = j
                                 THEN [program_config.tools[j] EXCEPT !.roi = ShiftRoi(@, off)]
                                 ELSE program_config.tools[j]]]
                      ELSE program_config
               /\ exc' = exc
               /\ pc' = "detect"
    /\ UNCHANGED << loaded_config, position_tool, quality_checked >>
    /\ UNCHANGED << output_states, camera_open, kind, stop_flag, outcome,
                    image, tool_results, overall_status >>
    /\ UNCHANGED log_vars
    /\ UNCHANGED call_vars

\* Step 3: the position tool, when there is one.  tool.roi is the roi dict
\* of the configuration entry, so the shift shows in program_config too.
PositionStep ==
    /\ pc = "position"
    /\ IF IsNone(position_tool)
       THEN /\ pc' = "detect"
            /\ UNCHANGED << position_result, exc, tools, program_config >>
       ELSE IF Val(image).pos.raise
       THEN /\ exc' = "position tool failed"
            /\ pc' = "finally"
            /\ UNCHANGED << position_result, tools, program_config >>
       ELSE LET res == position_process(Val(position_tool), Val(image))
                off == Val(res.offset)
                shift == res.status = OK /\ (off.dx # 0 \/ off.dy # 0)
            IN /\ position_result' = Some(res)
               /\ tools' = IF shift
                           THEN [i \in 1 .. Len(tools) |->
                                    [tools[i] EXCEPT !.roi = ShiftRoi(@, off)]]
                           ELSE tools
               /\ program_config' =
                      IF shift
                      THEN [program_config EXCEPT !.tools =
                              [j \in 1 .. Len(program_config.tools) |->
                                 IF \E i \in 1 .. Len(tools) : tools[i].idx = j
                                 THEN [program_config.tools[j] EXCEPT !.roi = ShiftRoi(@, off)]
                                 ELSE program_config.tools[j]]]
                      ELSE program_config
               /\ exc' = exc
               /\ pc' = "detect"
    /\ UNCHANGED << loaded_config, position_tool, quality_checked >>
    /\ UNCHANGED << output_states, camera_open, kind, stop_flag, outcome,
                    image, tool_results, overall_status >>
    /\ UNCHANGED log_vars
    /\ UNCHANGED call_vars

\* Mutant: the cycle polls the stop flag before the detection tools and
\* returns at once when it is raised.
ProcessTools_preempted ==
    /\ pc = "detect"
    /\ IF stop_flag
       THEN /\ pc' = "exit"
            /\ UNCHANGED tool_results
       ELSE /\ LET results == process_tools(tools, Val(image))
               IN tool_results' = IF ~IsNone(position_result)
                                  THEN << Val(position_result) >> \o results
                                  ELSE results
            /\ pc' = "aggregate"
    /\ UNCHANGED << output_states, camera_open, kind, stop_flag, outcome,
                    image, position_result, overall_status, exc >>
    /\ UNCHANGED engine_vars
    /\ UNCHANGED log_vars
    /\ UNCHANGED call_vars

\* Mutant: the position result is appended instead of inserted at index 0.
ProcessTools_position_appended ==
    /\ pc = "detect"
    /\ LET results == process_tools(tools, Val(image))
       IN tool_results' = IF ~IsNone(position_result)
                          THEN Append(results, Val(position_result))
                          ELSE results
    /\ pc' = "aggregate"
    /\ UNCHANGED << output_states, camera_open, kind, stop_flag, outcome,
                    image, position_result, overall_status, exc >>
    /\ UNCHANGED engine_vars
    /\ UNCHANGED log_vars
    /\ UNCHANGED call_vars

\* Step 4: process_tools, then the position result goes to the front.
ProcessTools ==
    /\ pc = "detect"
    /\ LET results == process_tools(tools, Val(image))
       IN tool_results' = IF ~IsNone(position_result)
                          THEN << Val(position_result) >> \o results
                          ELSE results
    /\ pc' = "aggregate"
    /\ UNCHANGED << output_states, camera_open, kind, stop_flag, outcome,
                    image, position_result, overall_status, exc >>
    /\ UNCHANGED engine_vars
    /\ UNCHANGED log_vars
    /\ UNCHANGED call_vars

\* Step 5: aggregate_results.
Aggregate ==
    /\ pc = "aggregate"
    /\ overall_status' = aggregate_results(tool_results)
    /\ pc' = "signal"
    /\ UNCHANGED << output_states, camera_open, kind, stop_flag, outcome,
                    image, position_result, tool_results, exc >>
    /\ UNCHANGED engine_vars
    /\ UNCHANGED log_vars
    /\ UNCHANGED call_vars

\* Mutant: the "else" before trigger_ng is missing, so an OK result raises
\* the NG output as well.
PulseOn_ng_unconditional ==
    /\ pc = "signal"
    /\ IF overall_status = OK
       THEN /\ output_states' = set_output(set_output(output_states, OUT_OK, TRUE), OUT_NG, TRUE)
            /\ pulse_log' = pulse_log \o << [cycle |-> cycles, output |-> OUT_OK],
                                             [cycle |-> cycles, output |-> OUT_NG] >>
       ELSE /\ output_states' = set_output(output_states, OUT_NG, TRUE)
            /\ pulse_log' = Append(pulse_log, [cycle |-> cycles, output |-> OUT_NG])
    /\ pc' = "pulse"
    /\ UNCHANGED << camera_open, kind, stop_flag, outcome, cycles, inspection_count,
                    callback_log >>
    /\ UNCHANGED engine_vars
    /\ UNCHANGED cycle_vars
    /\ UNCHANGED call_vars

\* Step 6, first half: trigger_ok or trigger_ng raises its output.
PulseOn ==
    /\ pc = "signal"
    /\ LET out == IF overall_status = OK THEN OUT_OK ELSE OUT_NG
       IN /\ output_states' = set_output(output_states, out, TRUE)
          /\ pulse_log' = Append(pulse_log, [cycle |-> cycles, output |-> out])
    /\ pc' = "pulse"
    /\ UNCHANGED << camera_open, kind, stop_flag, outcome, cycles, inspection_count,
                    callback_log >>
    /\ UNCHANGED engine_vars
    /\ UNCHANGED cycle_vars
    /\ UNCHANGED call_vars

\* Step 6, second half: the pulse ends, then the custom outputs are set.
PulseOffAndCustom ==
    /\ pc = "pulse"
    /\ LET out == IF overall_status = OK THEN OUT_OK ELSE OUT_NG
       IN output_states' = ApplyCustom(set_output(output_states, out, FALSE),
                                       program_config.outputs, 1, overall_status)
    /\ pc' = "finally"
    /\ UNCHANGED << camera_open, kind, stop_flag, outcome >>
    /\ UNCHANGED engine_vars
    /\ UNCHANGED cycle_vars
    /\ UNCHANGED log_vars
    /\ UNCHANGED call_vars

\* Mutant: set_busy(False) sits at the end of the try body instead of in a
\* finally clause, so a cycle that raises skips it.
Finally_busy_not_lowered_on_error ==
    /\ pc = "finally"
    /\ output_states' = IF exc = "" THEN set_output(output_states, BUSY, FALSE)
                        ELSE output_states
    /\ IF exc = ""
       THEN /\ outcome' = Some([status |-> overall_status, results |-> tool_results])
            /\ pc' = "callback"
       ELSE /\ outcome' = NoValue
            /\ pc' = "caught"
    /\ UNCHANGED << camera_open, kind, stop_flag >>
    /\ UNCHANGED engine_vars
    /\ UNCHANGED cycle_vars
    /\ UNCHANGED log_vars
    /\ UNCHANGED call_vars

\* Step 7, the finally clause: set_busy(False); then the cycle returns its
\* outcome or re-raises.
Finally ==
    /\ pc = "finally"
    /\ output_states' = set_output(output_states, BUSY, FALSE)
    /\ IF exc = ""
       THEN /\ outcome' = Some([status |-> overall_status, results |-> tool_results])
            /\ pc' = "callback"
       ELSE /\ outcome' = NoValue
            /\ pc' = "caught"
    /\ UNCHANGED << camera_open, kind, stop_flag >>
    /\ UNCHANGED engine_vars
    /\ UNCHANGED cycle_vars
    /\ UNCHANGED log_vars
    /\ UNCHANGED call_vars

\* The cycle returned: inspection_count += 1 and the result is handed on
\* (run_continuous: callback; inspection_loop: database log and emit).
Callback ==
    /\ pc = "callback"
    /\ inspection_count' = inspection_count + 1
    /\ callback_log' = Append(callback_log, cycles)
    /\ pc' = "wait"
    /\ UNCHANGED << output_states, camera_open, kind, stop_flag, outcome, cycles, pulse_log >>
    /\ UNCHANGED engine_vars
    /\ UNCHANGED cycle_vars
    /\ UNCHANGED call_vars

\* Mutant: the callback call sits after the try/except, so it also runs
\* for a cycle that raised.
CycleFailed_invokes_callback ==
    /\ pc = "caught"
    /\ callback_log' = Append(callback_log, cycles)
    /\ pc' = "wait"
    /\ UNCHANGED << output_states, camera_open, kind, stop_flag, outcome, cycles,
                    inspection_count, pulse_log >>
    /\ UNCHANGED engine_vars
    /\ UNCHANGED cycle_vars
    /\ UNCHANGED call_vars

\* Mutant: the except clause sits outside the while loop, so a failed cycle
\* ends the loop.
CycleFailed_leaves_loop ==
    /\ pc = "caught"
    /\ pc' = "exit"
    /\ UNCHANGED << output_states, camera_open, kind, stop_flag, outcome >>
    /\ UNCHANGED engine_vars
    /\ UNCHANGED cycle_vars
    /\ UNCHANGED log_vars
    /\ UNCHANGED call_vars

\* The cycle raised: "except Exception" in the loop logs and goes on.
CycleFailed ==
    /\ pc = "caught"
    /\ pc' = "wait"
    /\ UNCHANGED << output_states, camera_open, kind, stop_flag, outcome >>
    /\ UNCHANGED engine_vars
    /\ UNCHANGED cycle_vars
    /\ UNCHANGED log_vars
    /\ UNCHANGED call_vars

\* Mutant: the external trigger waits for a GPIO signal that never comes.
Wait_external_blocks ==
    /\ pc = "wait"
    /\ program_config.triggerType = "internal"
    /\ pc' = "check"
    /\ UNCHANGED << output_states, camera_open, kind, stop_flag, outcome >>
    /\ UNCHANGED engine_vars
    /\ UNCHANGED cycle_vars
    /\ UNCHANGED log_vars
    /\ UNCHANGED call_vars

\* Wait for the next trigger.  run_continuous: time.sleep(interval) for the
\* internal trigger, time.sleep(0.1) for any other; inspection_loop:
\* stop_flag.wait(interval).  Each returns after a bounded time.
Wait ==
    /\ pc = "wait"
    /\ pc' = "check"
    /\ UNCHANGED << output_states, camera_open, kind, stop_flag, outcome >>
    /\ UNCHANGED engine_vars
    /\ UNCHANGED cycle_vars
    /\ UNCHANGED log_vars
    /\ UNCHANGED call_vars

\* Mutant: only the three reserved outputs are reset.
reset_all_reserved_only(states) ==
    [n \in Outputs |-> IF n \in { BUSY, OUT_OK, OUT_NG } THEN FALSE ELSE states[n]]

\* GPIOController.reset_all
reset_all(states) == [n \in Outputs |-> FALSE]

\* The loop is left: inspection_loop's finally calls engine.cleanup()
\* (camera.close(), gpio.cleanup()); run_continuous only logs.
LoopExit ==
    /\ pc = "exit"
    /\ IF kind = "inspection_loop"
       THEN /\ camera_open' = FALSE
            /\ output_states' = reset_all(output_states)
       ELSE UNCHANGED << camera_open, output_states >>
    /\ pc' = "done"
    /\ UNCHANGED << kind, stop_flag, outcome >>
    /\ UNCHANGED engine_vars
    /\ UNCHANGED cycle_vars
    /\ UNCHANGED log_vars
    /\ UNCHANGED call_vars

\* InspectionEngine.cleanup called on an engine whose loop has ended, by its
\* holder or by __del__: camera.close(), then gpio.cleanup() -> reset_all().
\* After inspection_loop's own cleanup this is the second call.
Cleanup ==
    /\ pc = "done"
    /\ camera_open' = FALSE
    /\ output_states' = reset_all(output_states)
    /\ UNCHANGED << kind, pc, stop_flag, outcome >>
    /\ UNCHANGED engine_vars
    /\ UNCHANGED cycle_vars
    /\ UNCHANGED log_vars
    /\ UNCHANGED call_vars

CycleSteps ==
    \/ StartCycle \/ Capture \/ QualityCheck \/ PositionStep \/ ProcessTools
    \/ Aggregate \/ PulseOn \/ PulseOffAndCustom \/ Finally

LoopSteps == LoopCheck \/ Callback \/ CycleFailed \/ Wait \/ LoopExit

Next == Construct \/ SetStop \/ LoopSteps \/ CycleSteps \/ Cleanup

Spec == Init /\ [][Next]_vars

\* ---------------------------------------------------------- the engine object
\* run_inspection_cycle on every engine object its fields allow:
\* position_tool is Optional[PositionAdjustmentToolProcessor], and when the
\* assignment "self.position_tool = tool" of load_program has run it holds
\* the tool built from the program's first position_adjust entry.
\* load_program as written never gets there (ConfigureRaises), so these
\* engines are the ones a caller gets by installing the tool itself.
PositionEntries(tcs) == { i \in 1 .. Len(tcs) : tcs[i].type = "position_adjust" }

EngineWithPositionTool(config) ==
    LET ps == PositionEntries(config.tools)
        first == CHOOSE i \in ps : \A j \in ps : i <= j
    IN [ tools |-> load_program(config).tools,
         position_tool |->
            IF ps = {} THEN NoValue
            ELSE Some(LoadedTool(config.tools[first], first, Val(config.masterImage))) ]

EngineInit(configs) ==
    /\ program_config \in configs
    /\ loaded_config = program_config
    /\ \E e \in { load_program(program_config), EngineWithPositionTool(program_config) } :
          /\ tools = e.tools
          /\ position_tool = e.position_tool
    /\ quality_checked = FALSE
    /\ output_states = [n \in Outputs |-> FALSE]
    /\ camera_open = TRUE
    /\ kind \in LoopKinds
    /\ pc = "check"
    /\ stop_flag = FALSE
    /\ image = NoValue
    /\ position_result = NoValue
    /\ tool_results = << >>
    /\ overall_status = ""
    /\ exc = ""
    /\ outcome = NoValue
    /\ cycles = 0
    /\ inspection_count = 0
    /\ pulse_log = << >>
    /\ callback_log = << >>
    /\ call = NoValue
    /\ ret = NoValue
    /\ NoSession

\* No step of a cycle reads trigger_type and Wait is the same step for
\* both trigger types, so the engine's cycles are explored for one of them;
\* the liveness specification below varies it.
EnginePrograms ==
    { c \in ProgramConfigs : ~LoadRaises(c) /\ c.triggerType = "internal" }

InitEngine == EngineInit(EnginePrograms)

NextEngine == SetStop \/ LoopSteps \/ CycleSteps \/ Cleanup

SpecEngine == InitEngine /\ [][NextEngine]_vars

\* The worker thread keeps running: a step of the loop or of a cycle that
\* can be taken is taken (every capture, tool call, pulse and sleep returns).
Worker == LoopSteps \/ CycleSteps

\* Whether the loop ends does not depend on which tools the engine holds:
\* the engines of one program with a position tool and an area tool, whose
\* cycles return, or raise in the capture, quality or position step.
LivePrograms ==
    { c \in ProgramConfigs :
        /\ ~LoadRaises(c)
        /\ Len(c.tools) = 2
        /\ c.tools[1].type = "position_adjust"
        /\ c.tools[2].type = "area" /\ IsNone(c.tools[2].upperLimit) }

InitLive == EngineInit(LivePrograms)

SpecLive == InitLive /\ [][NextEngine]_vars /\ WF_vars(Worker)

\* ------------------------------------------------- tool methods called directly
\* No engine is involved: a tool object is built and one of its methods is
\* called by a caller of the tools package.
NoEngine ==
    /\ program_config = [ masterImage |-> NoValue, tools |-> << >>,
                          triggerType |-> "internal", outputs |-> << >> ]
    /\ loaded_config = program_config
    /\ tools = << >>
    /\ position_tool = NoValue
    /\ quality_checked = FALSE
    /\ output_states = [n \in Outputs |-> FALSE]
    /\ camera_open = FALSE
    /\ kind = "run_continuous"
    /\ pc = "new"
    /\ stop_flag = FALSE
    /\ image = NoValue
    /\ position_result = NoValue
    /\ tool_results = << >>
    /\ overall_status = ""
    /\ exc = ""
    /\ outcome = NoValue
    /\ cycles = 0
    /\ inspection_count = 0
    /\ pulse_log = << >>
    /\ callback_log = << >>

\* judge(matching_rate) of a tool object: the tool's class, threshold and
\* upper_limit attributes, and the rate as a fraction.
JudgeThresholds == { 0, 50, 100 }
JudgeUpperLimits == { NoValue, Some(50), Some(100) }
JudgeRates == [ num : { 0, 49, 50, 51, 100, 101, 149, 150, 151, 200 }, den : { 1, 3 } ]

JudgeTools ==
    { [ tool_type |-> ty, idx |-> 0, roi |-> AreaRoi, threshold |-> th,
        upper_limit |-> u, master_count |-> 1 ] :
          ty \in TOOL_CLASSES, th \in JudgeThresholds, u \in JudgeUpperLimits }

\* The judge method the tool's class resolves to; the position tool's
\* confidence is a whole number here.
tool_judge(tool, rate) ==
    IF tool.tool_type = "position_adjust" THEN position_judge(tool, rate.num)
    ELSE judge(tool, rate)

JudgeCalls ==
    { c \in [ tool : JudgeTools, rate : JudgeRates ] :
        c.tool.tool_type = "position_adjust" => c.rate.den = 1 }

InitJudge ==
    /\ NoEngine
    /\ call \in { Some(c) : c \in JudgeCalls }
    /\ ret = NoValue
    /\ NoSession

JudgeCall ==
    /\ ~IsNone(call)
    /\ IsNone(ret)
    /\ ret' = Some(tool_judge(Val(call).tool, Val(call).rate))
    /\ UNCHANGED << call, output_states, camera_open, kind, pc, stop_flag, outcome >>
    /\ UNCHANGED session_vars
    /\ UNCHANGED engine_vars
    /\ UNCHANGED cycle_vars
    /\ UNCHANGED log_vars

SpecJudge == InitJudge /\ [][JudgeCall]_vars

\* configure(roi, threshold, upper_limit) of a new tool object.
\* BaseToolProcessor.__init__: the attributes before configure.
NewToolAttrs == [ roi |-> NoValue, threshold |-> 65, upper_limit |-> NoValue ]

\* BaseToolProcessor.configure: three assignments, no check, no raise.
configure(attrs, roi, threshold, upper_limit) ==
    [ attrs EXCEPT !.roi = Some(roi), !.threshold = threshold, !.upper_limit = upper_limit ]

ConfigureRois == [ x : { 0 }, y : { 0 }, width : { -1, 0, 2 }, height : { -1, 0, 1 } ]
ConfigureThresholds == { -1, 0, 50, 100, 101 }

\* The position tool's configure takes no upper_limit.
ConfigureCalls ==
    { c \in [ tool_type : TOOL_CLASSES, roi : ConfigureRois,
              threshold : ConfigureThresholds, upper_limit : { NoValue, Some(100) } ] :
        c.tool_type = "position_adjust" => IsNone(c.upper_limit) }

InitConfigure ==
    /\ NoEngine
    /\ call \in { Some(c) : c \in ConfigureCalls }
    /\ ret = NoValue
    /\ NoSession

\* The call returns; the tool's attributes are what configure stored.
ConfigureCall ==
    /\ ~IsNone(call)
    /\ IsNone(ret)
    /\ ret' = Some([ raised |-> FALSE,
                     attrs |-> configure(NewToolAttrs, Val(call).roi, Val(call).threshold,
                                         Val(call).upper_limit) ])
    /\ UNCHANGED << call, output_states, camera_open, kind, pc, stop_flag, outcome >>
    /\ UNCHANGED session_vars
    /\ UNCHANGED engine_vars
    /\ UNCHANGED cycle_vars
    /\ UNCHANGED log_vars

SpecConfigure == InitConfigure /\ [][ConfigureCall]_vars

\* extract_roi(image) of a tool object whose roi a caller or the position
\* shift has set: x and y from two pixels before the image to two pixels
\* past it, width and height positive and up to one more than the image.
ExtractRois == [ x : -2 .. ImgW + 1, y : -2 .. ImgH + 1,
                 width : 1 .. ImgW + 1, height : 1 .. ImgH + 1 ]

InitExtract ==
    /\ NoEngine
    /\ call \in { Some(r) : r \in ExtractRois }
    /\ ret = NoValue
    /\ NoSession

\* The call returns image[y:y+h, x:x+w]; ret is the rectangle sliced.
ExtractCall ==
    /\ ~IsNone(call)
    /\ IsNone(ret)
    /\ ret' = Some(extract_roi(Val(call)))
    /\ UNCHANGED << call, output_states, camera_open, kind, pc, stop_flag, outcome >>
    /\ UNCHANGED session_vars
    /\ UNCHANGED engine_vars
    /\ UNCHANGED cycle_vars
    /\ UNCHANGED log_vars

SpecExtract == InitExtract /\ [][ExtractCall]_vars

\* calculate_matching_rate(test_image) of an area, colour area or edge tool
\* after extract_master_features(master_image, roi).  An image is the set
\* of the pixels the tool's detector marks in it (white, in the colour
\* range, edge): the first k pixels in row order, or all but the first k.
PixelIndex(p) == p[2] * ImgW + p[1]
MarkedSets ==
    { { p \in Grid : PixelIndex(p) < k } : k \in 0 .. ImgW * ImgH }
    \cup { { p \in Grid : PixelIndex(p) >= k } : k \in 0 .. ImgW * ImgH }
RateClasses == { "area", "color_area", "edge_detection" }
RateRois == { AreaRoi, [x |-> 0, y |-> 0, width |-> ImgW, height |-> ImgH] }

\* extract_master_features: the count the tool keeps of the master ROI.
RateTool(ty, roi, master) ==
    [ tool_type |-> ty, idx |-> 0, roi |-> roi, threshold |-> 65,
      upper_limit |-> NoValue, master_count |-> WhiteCount(master, roi) ]

\* The calculate_matching_rate the tool's class defines.
calculate_matching_rate(tool, marked) ==
    CASE tool.tool_type = "area" -> area_matching_rate(tool, marked)
      [] tool.tool_type = "color_area" -> color_area_matching_rate(tool, marked)
      [] tool.tool_type = "edge_detection" -> edge_matching_rate(tool, marked)

\* One tool, two test images.
RateCalls == [ tool_type : RateClasses, roi : RateRois, master : MarkedSets,
               test : MarkedSets, test2 : MarkedSets ]

InitRate ==
    /\ NoEngine
    /\ call \in { Some(c) : c \in RateCalls }
    /\ ret = NoValue
    /\ NoSession

\* Both calls return; ret holds the two rates.
RateCall ==
    /\ ~IsNone(call)
    /\ IsNone(ret)
    /\ LET tool == RateTool(Val(call).tool_type, Val(call).roi, Val(call).master)
       IN ret' = Some([ rate |-> calculate_matching_rate(tool, Val(call).test),
                        rate2 |-> calculate_matching_rate(tool, Val(call).test2) ])
    /\ UNCHANGED << call, output_states, camera_open, kind, pc, stop_flag, outcome >>
    /\ UNCHANGED session_vars
    /\ UNCHANGED engine_vars
    /\ UNCHANGED cycle_vars
    /\ UNCHANGED log_vars

SpecRate == InitRate /\ [][RateCall]_vars

\* ------------------------------------------------- websocket inspection sessions
\* The handlers of api/websocket.py for one session id, and the threads
\* start_inspection starts for it.  Handlers and threads run concurrently
\* (async_mode='threading'); each engine's cycle is one step here.
MaxThreads == 3

\* The engine variables play no part.
SessionEngineFixed ==
    /\ UNCHANGED << call, ret, output_states, camera_open, kind, pc, stop_flag, outcome >>
    /\ UNCHANGED engine_vars
    /\ UNCHANGED cycle_vars
    /\ UNCHANGED log_vars

InitSession ==
    /\ NoEngine
    /\ call = NoValue
    /\ ret = NoValue
    /\ NoSession

\* A thread that has not returned from its target function.
Running(t) == t.pc # "ended"

\* start_inspection with a programId that exists: rejected while the
\* session has an entry; otherwise the entry is stored with a new stop
\* flag and the thread is started.
start_inspection(continuous) ==
    /\ connected
    /\ Len(threads) < MaxThreads
    /\ IF ~IsNone(active_inspections)
       THEN /\ emitted' = "error"
            /\ UNCHANGED << active_inspections, threads >>
       ELSE /\ active_inspections' = Some(Len(threads) + 1)
            /\ threads' = Append(threads, [ continuous |-> continuous, pc |-> "construct",
                                            stop_flag |-> FALSE, inspection_count |-> 0 ])
            /\ emitted' = "inspection_started"
    /\ UNCHANGED << connected, stop_sleeping >>
    /\ SessionEngineFixed

\* stop_inspection up to time.sleep(0.5): a warning without an entry,
\* otherwise the entry's stop flag is set.
stop_inspection ==
    /\ connected
    /\ ~stop_sleeping
    /\ IF IsNone(active_inspections)
       THEN /\ emitted' = "warning"
            /\ UNCHANGED << threads, stop_sleeping >>
       ELSE /\ threads' = [threads EXCEPT ![Val(active_inspections)].stop_flag = TRUE]
            /\ stop_sleeping' = TRUE
            /\ UNCHANGED emitted
    /\ UNCHANGED << connected, active_inspections >>
    /\ SessionEngineFixed

\* stop_inspection after the sleep: whatever entry the session has now is
\* deleted.
stop_inspection_wake ==
    /\ stop_sleeping
    /\ stop_sleeping' = FALSE
    /\ active_inspections' = NoValue
    /\ emitted' = "inspection_stopped"
    /\ UNCHANGED << connected, threads >>
    /\ SessionEngineFixed

\* handle_disconnect: the entry's stop flag is set and the entry deleted.
handle_disconnect ==
    /\ connected
    /\ connected' = FALSE
    /\ IF IsNone(active_inspections)
       THEN UNCHANGED << threads, active_inspections >>
       ELSE /\ threads' = [threads EXCEPT ![Val(active_inspections)].stop_flag = TRUE]
            /\ active_inspections' = NoValue
    /\ UNCHANGED << stop_sleeping, emitted >>
    /\ SessionEngineFixed

ThreadStep(i, to) ==
    /\ threads' = [threads EXCEPT ![i].pc = to]
    /\ UNCHANGED << connected, active_inspections, stop_sleeping, emitted >>
    /\ SessionEngineFixed

\* InspectionEngine(program_config) in inspection_loop or single_inspection:
\* it returns, or it raises and the function ends in its except clause.
engine_constructed(i) ==
    /\ threads[i].pc = "construct"
    /\ ThreadStep(i, IF threads[i].continuous THEN "check" ELSE "cycle")

engine_construction_failed(i) ==
    /\ threads[i].pc = "construct"
    /\ ThreadStep(i, "ended")

\* while not stop_flag.is_set(): the loop goes on, or ends and the finally
\* clause cleans the engine up.
loop_check(i) ==
    /\ threads[i].pc = "check"
    /\ threads[i].stop_flag \/ threads[i].inspection_count < MaxCycles
    /\ ThreadStep(i, IF threads[i].stop_flag THEN "ended" ELSE "cycle")

\* engine.run_inspection_cycle() returns: inspection_loop counts the
\* inspection, emits the result and goes to its wait; single_inspection
\* emits and ends.
cycle_returned(i) ==
    /\ threads[i].pc = "cycle"
    /\ threads' = [threads EXCEPT
                      ![i].pc = IF threads[i].continuous THEN "wait" ELSE "ended",
                      ![i].inspection_count = IF threads[i].continuous THEN @ + 1 ELSE @]
    /\ UNCHANGED << connected, active_inspections, stop_sleeping, emitted >>
    /\ SessionEngineFixed

\* engine.run_inspection_cycle() raises: inspection_loop emits the error
\* and goes to its wait, single_inspection emits the error and ends.
cycle_raised(i) ==
    /\ threads[i].pc = "cycle"
    /\ ThreadStep(i, IF threads[i].continuous THEN "wait" ELSE "ended")

\* stop_flag.wait(trigger_interval_sec) returns, on the flag or the timeout.
wait_over(i) ==
    /\ threads[i].pc = "wait"
    /\ ThreadStep(i, "check")

Handlers ==
    \/ \E continuous \in BOOLEAN : start_inspection(continuous)
    \/ stop_inspection
    \/ stop_inspection_wake
    \/ handle_disconnect

ThreadSteps ==
    \/ \E i \in 1 .. Len(threads) : engine_constructed(i)
    \/ \E i \in 1 .. Len(threads) : engine_construction_failed(i)
    \/ \E i \in 1 .. Len(threads) : loop_check(i)
    \/ \E i \in 1 .. Len(threads) : cycle_returned(i)
    \/ \E i \in 1 .. Len(threads) : cycle_raised(i)
    \/ \E i \in 1 .. Len(threads) : wait_over(i)

NextSession == Handlers \/ ThreadSteps

SpecSession == InitSession /\ [][NextSession]_vars

\* run_inspection_cycle called twice by a caller that holds the engine: any
\* engine object that has run no cycle that got past the quality check (its
\* ROIs are as loaded), before or after its first cycle.
InitTwice ==
    /\ program_config \in { c \in ProgramConfigs : ~LoadRaises(c) }
    /\ loaded_config = program_config
    /\ \E e \in { load_program(program_config), EngineWithPositionTool(program_config) } :
          /\ tools = e.tools
          /\ position_tool = e.position_tool
    /\ quality_checked \in BOOLEAN
    /\ output_states = [n \in Outputs |-> FALSE]
    /\ camera_open = TRUE
    /\ kind = "direct"
    /\ pc = "begin"
    /\ stop_flag = FALSE
    /\ image = NoValue
    /\ position_result = NoValue
    /\ tool_results = << >>
    /\ overall_status = ""
    /\ exc = ""
    /\ outcome = NoValue
    /\ cycles = 0
    /\ inspection_count = 0
    /\ pulse_log = << >>
    /\ callback_log = << >>
    /\ call = Some("run_inspection_cycle")
    /\ ret = NoValue
    /\ NoSession

\* The first call has returned or raised: the caller keeps what it got and
\* the buffer the capture source gave, and calls again.
CallAgain ==
    /\ pc \in { "callback", "caught" }
    /\ IsNone(ret)
    /\ ret' = Some([image |-> image, outcome |-> outcome])
    /\ pc' = "begin"
    /\ UNCHANGED << call, output_states, camera_open, kind, stop_flag, outcome >>
    /\ UNCHANGED session_vars
    /\ UNCHANGED engine_vars
    /\ UNCHANGED cycle_vars
    /\ UNCHANGED log_vars

NextTwice == CycleSteps \/ CallAgain

SpecTwice == InitTwice /\ [][NextTwice]_vars

\* ------------------------------------------------------------------ claims
InCycle == { "capture", "quality", "position", "detect", "aggregate", "signal",
             "pulse", "finally" }
AfterCycle == { "callback", "caught" }

AllOK(results) == \A i \in 1 .. Len(results) : results[i].status = OK

\* C1: whenever a cycle returns an outcome, its overall status is OK exactly
\* when every entry of the returned result list, the position tool's entry
\* included, has status OK.
C1_OverallIffAllOK ==
    ~IsNone(outcome) =>
        ((Val(outcome).status = OK) <=> AllOK(Val(outcome).results))

\* A returned outcome that starts with the position tool's OK entry and has
\* one NG entry among OK entries: overall NG.
C1_Witness ==
    /\ ~IsNone(outcome)
    /\ Len(Val(outcome).results) >= 2
    /\ Val(outcome).results[1].tool_type = "position_adjust"
    /\ Val(outcome).results[1].status = OK
    /\ Cardinality({ i \in 1 .. Len(Val(outcome).results) :
                        Val(outcome).results[i].status = NG }) = 1
    /\ Val(outcome).status = NG

\* C2: outside a cycle, whether the last cycle returned or raised, the BUSY
\* output is LOW.
C2_BusyLowBetweenCycles ==
    pc \notin InCycle => ~output_states[BUSY]

\* A cycle that raised in the position step has finished and BUSY is LOW.
C2_Witness ==
    /\ pc = "caught"
    /\ exc = "position tool failed"
    /\ ~output_states[BUSY]

LoadFails(tc, master) == ConfigureRaises(tc) \/ ExtractRaises(tc, master)

\* C4 as claimed: if configure or extract_master_features fails for a tool
\* of the program, no engine is built from it.
C4_LoadAbortsOnToolFailure ==
    (/\ ~IsNone(loaded_config.masterImage)
     /\ \E i \in 1 .. Len(loaded_config.tools) :
           LoadFails(loaded_config.tools[i], Val(loaded_config.masterImage)))
    => pc \in { "new", "crashed" }

\* The entries the detection tools contributed to a result list.
DetectionPart(results) ==
    IF Len(results) > 0 /\ results[1].tool_type = "position_adjust"
    THEN Tail(results) ELSE results

\* C5: a returned outcome holds one entry per loaded detection tool, in
\* order; the entry of a tool whose process raised is NG and carries the
\* error and the overall status is then NG; every other tool's entry is the
\* result of its own process.  No cycle is aborted by a detection tool.
C5_ToolFailureIsolated ==
    /\ ~IsNone(outcome) =>
          LET d == DetectionPart(Val(outcome).results)
              buf == Val(image)
          IN /\ Len(d) = Len(tools)
             /\ \A i \in 1 .. Len(tools) :
                   /\ d[i].tool_type = tools[i].tool_type
                   /\ ProcessRaises(tools[i], buf) =>
                         /\ d[i].status = NG
                         /\ d[i].error # ""
                         /\ Val(outcome).status = NG
                   /\ ~ProcessRaises(tools[i], buf) =>
                         d[i] = process(tools[i], buf)
    /\ (pc \in { "aggregate", "signal", "pulse" }) => exc = ""

\* A returned outcome of two detection tools: the first raised, the second
\* reported OK.
C5_Witness ==
    /\ ~IsNone(outcome)
    /\ Len(tools) = 2
    /\ ProcessRaises(tools[1], Val(image))
    /\ DetectionPart(Val(outcome).results)[2].status = OK
    /\ Val(outcome).status = NG

C7_PositionToolInstalled ==
    (pc \notin { "new", "crashed" } /\ PositionEntries(loaded_config.tools) # {})
    => /\ ~IsNone(position_tool)
       /\ pc \in { "detect", "aggregate" } => ~IsNone(position_result)

\* C8 as claimed: the first cycle of an engine, once its capture succeeded,
\* returns an outcome whatever the consistency check does.
C8_QualityCheckAdvisory ==
    (pc \in AfterCycle /\ cycles = 1 /\ ~IsNone(image)) => ~IsNone(outcome)

CaptureFailed == exc = "Failed to capture image"

\* C9: a cycle whose capture returned no buffer fires no pulse and no
\* callback and leaves BUSY LOW; the loop then waits for the next trigger
\* and, unless the stop flag is seen, begins the next cycle.
C9_CaptureFailureAbortsOneCycle ==
    /\ [](( CaptureFailed /\ pc \notin InCycle ) =>
            /\ ~output_states[BUSY]
            /\ \A i \in 1 .. Len(pulse_log) : pulse_log[i].cycle # cycles
            /\ \A i \in 1 .. Len(callback_log) : callback_log[i] # cycles)
    /\ [][ /\ (pc = "caught" /\ pc' # pc) => pc' = "wait"
           /\ (pc = "wait" /\ pc' # pc) => pc' = "check"
           /\ (pc = "check" /\ pc' # pc /\ ~stop_flag) => pc' = "begin" ]_vars

\* After a cycle whose capture failed the loop is about to start the next.
C9_Witness ==
    /\ pc = "begin"
    /\ CaptureFailed
    /\ cycles >= 1
    /\ ~output_states[BUSY]

\* C10: a cycle is left only through the step that lowers BUSY, whatever
\* the stop flag is; the loop is left only at its check, with the flag
\* raised; and after that no cycle is started.
C10_CooperativeCancel ==
    [][ /\ (pc \in InCycle /\ pc' \notin InCycle) =>
              (pc = "finally" /\ ~output_states'[BUSY])
        /\ (pc # "exit" /\ pc' = "exit") => (pc = "check" /\ stop_flag)
        /\ (pc \in { "exit", "done" }) => (pc' \in { "exit", "done" } /\ cycles' = cycles) ]_vars

\* The flag was raised while a cycle was running, and the cycle returned
\* its outcome with BUSY lowered.
C10_Witness ==
    /\ pc = "callback"
    /\ stop_flag
    /\ ~IsNone(outcome)
    /\ ~output_states[BUSY]

\* C11: once the stop flag is raised the loop ends, whatever the trigger
\* type and whether cycles return or raise; with the flag raised no cycle
\* begins except the one whose loop check had already passed.
C11_StopTerminates ==
    /\ stop_flag ~> (pc = "done")
    /\ [][ /\ (stop_flag /\ pc' = "begin") => pc = "begin"
           /\ (stop_flag /\ cycles' # cycles) => pc = "begin" ]_vars

\* The loop of an externally triggered program has ended after the flag was
\* raised during a cycle that then raised.
C11_Witness ==
    /\ pc = "done"
    /\ stop_flag
    /\ program_config.triggerType = "external"
    /\ exc # ""
    /\ cycles >= 2

BetweenCycles == { "wait", "check", "begin", "exit", "done" }

\* C12: the callbacks of one run carry strictly increasing cycle numbers; a
\* callback is invoked only for the cycle that has just returned an outcome,
\* with BUSY already lowered; BUSY is raised only to begin a cycle, from
\* LOW, and then the last cycle, if it returned an outcome, has had its
\* callback and, if it raised, has had none.
C12_CallbacksInCycleOrder ==
    /\ [](\A i \in 1 .. Len(callback_log) - 1 : callback_log[i] < callback_log[i + 1])
    /\ [](\A i \in 1 .. Len(callback_log) : callback_log[i] <= cycles)
    /\ []((pc \in InCycle \cup AfterCycle) =>
             \A i \in 1 .. Len(callback_log) : callback_log[i] # cycles)
    /\ []((pc \in BetweenCycles /\ cycles > 0) =>
             ( ~IsNone(outcome) <=>
                 (Len(callback_log) > 0 /\ callback_log[Len(callback_log)] = cycles) ))
    /\ [][ /\ callback_log' # callback_log =>
                 /\ pc = "callback" /\ ~IsNone(outcome) /\ ~output_states[BUSY]
                 /\ callback_log' = Append(callback_log, cycles)
           /\ (output_states'[BUSY] /\ ~output_states[BUSY]) =>
                 (pc = "begin" /\ cycles' = cycles + 1)
           /\ cycles' # cycles => ~output_states[BUSY] ]_vars

\* Three cycles: the first raised, the second and third returned and their
\* callbacks came in that order.
C12_Witness ==
    /\ cycles = 3
    /\ callback_log = << 2, 3 >>
    /\ pc = "wait"
    /\ ~output_states[BUSY]

PulsesOf(k) == { i \in 1 .. Len(pulse_log) : pulse_log[i].cycle = k }

\* C13: a cycle that returned an outcome fired exactly one pulse, on the OK
\* output when its overall status is OK and on the NG output otherwise, and
\* both result outputs are LOW once it has returned; while the pulse lasts
\* exactly one of the two is HIGH.
C13_ExactlyOnePulse ==
    /\ ~IsNone(outcome) =>
          /\ Cardinality(PulsesOf(cycles)) = 1
          /\ \A i \in PulsesOf(cycles) :
                pulse_log[i].output = IF Val(outcome).status = OK THEN OUT_OK ELSE OUT_NG
          /\ ~output_states[OUT_OK]
          /\ ~output_states[OUT_NG]
    /\ pc = "pulse" => (output_states[OUT_OK] # output_states[OUT_NG])

\* An NG cycle and then an OK cycle have returned: one NG pulse, then one OK
\* pulse.
C13_Witness ==
    /\ ~IsNone(outcome)
    /\ Val(outcome).status = OK
    /\ Len(pulse_log) = 2
    /\ pulse_log[1].output = OUT_NG
    /\ pulse_log[2].output = OUT_OK
    /\ pulse_log[2].cycle = cycles

Reserved == { "OUT1", "OUT2", "OUT3" }

\* C14: while the engine is in use after a cycle returned an outcome, each
\* custom output of the program's output configuration is HIGH for
\* "Always ON", LOW for "Always OFF", HIGH exactly when the overall status is
\* OK for "OK", HIGH exactly when it is NG for "NG" and LOW for any other
\* condition; the outputs OUT1, OUT2, OUT3 are LOW whatever an entry naming
\* them asks for, and when the custom outputs have just been set BUSY is
\* still HIGH and the two result outputs are LOW.
C14_CustomOutputs ==
    /\ (~IsNone(outcome) /\ pc # "done") =>
        \A i \in 1 .. Len(program_config.outputs) :
            LET e == program_config.outputs[i]
                st == Val(outcome).status
            IN IF e.name \in Reserved
               THEN ~output_states[OutputNumber(e.name)]
               ELSE output_states[OutputNumber(e.name)] =
                       ( \/ e.cond = "Always ON"
                         \/ (e.cond = "OK" /\ st = OK)
                         \/ (e.cond = "NG" /\ st = NG) )
    /\ (pc = "finally" /\ exc = "") =>
          (output_states[BUSY] /\ ~output_states[OUT_OK] /\ ~output_states[OUT_NG])

\* An OK cycle and then an NG cycle have returned: the "NG" and "Always ON"
\* outputs are HIGH, the "OK" output set by the earlier cycle is LOW again.
C14_Witness ==
    /\ ~IsNone(outcome)
    /\ Val(outcome).status = NG
    /\ Len(pulse_log) = 2
    /\ pulse_log[1].output = OUT_OK
    /\ output_states[5] /\ output_states[6]
    /\ ~output_states[4] /\ ~output_states[7] /\ ~output_states[8]
    /\ ~output_states[BUSY]

\* C15 as claimed: an outcome whose overall status is OK has a non-empty
\* result list.
C15_EmptyResultsNeverOK ==
    (~IsNone(outcome) /\ Val(outcome).status = OK) => Len(Val(outcome).results) > 0

\* C16: judge of a tool with no upper_limit, and judge of the position tool
\* with or without one, returns OK exactly when rate >= threshold, a rate
\* equal to the threshold included.
C16_FloorJudgment ==
    ~IsNone(ret) =>
        LET t == Val(call).tool
            r == Val(call).rate
        IN (IsNone(t.upper_limit) \/ t.tool_type = "position_adjust") =>
               /\ (Val(ret) = OK) <=> (r.num >= t.threshold * r.den)
               /\ Val(ret) \in { OK, NG }

\* The edge tool judged a rate of 150/3 against threshold 50 and no upper
\* limit: OK.
C16_Witness ==
    /\ ~IsNone(ret)
    /\ Val(call).tool.tool_type = "edge_detection"
    /\ IsNone(Val(call).tool.upper_limit)
    /\ Val(call).tool.threshold = 50
    /\ Val(call).rate = [num |-> 150, den |-> 3]
    /\ Val(ret) = OK

ConfigOf(tool) == loaded_config.tools[tool.idx]

\* C17 as claimed: a loaded detection tool whose configuration entry has an
\* upperLimit still holds that limit, and the status it reports in a
\* returned outcome is OK exactly when threshold <= rate <= upperLimit.
C17_RangeJudgmentInCycle ==
    ~IsNone(outcome) =>
        LET d == DetectionPart(Val(outcome).results)
        IN \A i \in 1 .. Len(tools) :
              LET c == ConfigOf(tools[i])
              IN (~IsNone(c.upperLimit) /\ ~ProcessRaises(tools[i], Val(image))) =>
                    /\ tools[i].upper_limit = c.upperLimit
                    /\ (d[i].status = OK) <=>
                          /\ c.threshold * d[i].den <= d[i].num
                          /\ d[i].num <= Val(c.upperLimit) * d[i].den

\* C18 as claimed: when the second of two calls of run_inspection_cycle has
\* finished and its capture gave the same buffer as the first call's, the
\* two calls ended alike: both returned a result list and the lists are
\* equal, or both raised.
C18_TwiceSameResults ==
    (/\ pc \in AfterCycle
     /\ ~IsNone(ret)
     /\ ~IsNone(image)
     /\ Val(ret).image = image)
    => /\ IsNone(outcome) <=> IsNone(Val(ret).outcome)
       /\ ~IsNone(outcome) => Val(Val(ret).outcome).results = Val(outcome).results

Cleaned == (\A n \in Outputs : ~output_states[n]) /\ ~camera_open

C20_ConfigureRejectsInvalid ==
    ~IsNone(ret) =>
        LET c == Val(call)
        IN (c.roi.width <= 0 \/ c.roi.height <= 0 \/ c.threshold \notin 0 .. 100) =>
               (Val(ret).raised /\ Val(ret).attrs = NewToolAttrs)

\* The steps a cycle may take next, by its position.
StepOrder ==
    [ p \in { "begin" } \cup InCycle |->
        CASE p = "begin" -> { "capture" }
          [] p = "capture" -> { "quality", "finally" }
          [] p = "quality" -> { "position", "finally" }
          [] p = "position" -> { "detect", "finally" }
          [] p = "detect" -> { "aggregate" }
          [] p = "aggregate" -> { "signal" }
          [] p = "signal" -> { "pulse" }
          [] p = "pulse" -> { "finally" }
          [] p = "finally" -> AfterCycle ]

\* C21: a cycle takes its steps in the order BUSY raised, capture, position
\* tool, detection tools, aggregation, pulse and custom outputs, BUSY
\* lowered (a step that raises goes straight to the last); BUSY is HIGH at
\* every step after the first, and while a loop runs no output other than
\* BUSY changes unless BUSY is HIGH before and after the change.
C21_StepOrderUnderBusy ==
    /\ [](pc \in InCycle => output_states[BUSY])
    /\ [][ /\ (pc \in DOMAIN StepOrder /\ pc' # pc) => pc' \in StepOrder[pc]
           /\ (pc = "begin" /\ pc' # pc) => (~output_states[BUSY] /\ output_states'[BUSY])
           /\ (pc = "finally" /\ pc' # pc) => ~output_states'[BUSY]
           /\ ( /\ pc \notin { "exit", "done" }
                /\ \E n \in Outputs \ { BUSY } : output_states'[n] # output_states[n] )
              => (output_states[BUSY] /\ output_states'[BUSY] /\ pc \in { "signal", "pulse" })
         ]_vars

\* A cycle with a position tool and a detection tool has set its custom
\* outputs and is about to lower BUSY.
C21_Witness ==
    /\ pc = "finally"
    /\ exc = ""
    /\ ~IsNone(position_result)
    /\ Len(tool_results) >= 2
    /\ output_states[BUSY]
    /\ output_states[6]

RoiFrozenAt == { "begin", "capture", "quality", "detect", "aggregate", "signal",
                 "pulse", "finally" }

\* C23: the position step is the only step of a cycle that can change a
\* detection tool's ROI, and when the position tool's result is NG it
\* changes none, while the result reports the offset that was computed.
C23_NoShiftOnPositionNG ==
    [][ /\ pc \in RoiFrozenAt => tools' = tools
        /\ ( /\ pc = "position"
             /\ ~IsNone(position_result')
             /\ Val(position_result').status = NG )
           => /\ tools' = tools
              /\ program_config' = program_config
              /\ Val(position_result').offset =
                    Some([dx |-> Val(image).pos.dx, dy |-> Val(image).pos.dy]) ]_vars

\* The detection tools are about to run after the position tool reported NG
\* with offset (1,-1); the first tool still has its configured ROI.
C23_Witness ==
    /\ pc = "detect"
    /\ ~IsNone(position_result)
    /\ Val(position_result).status = NG
    /\ Val(position_result).offset = Some([dx |-> 1, dy |-> -1])
    /\ Len(tools) >= 1
    /\ tools[1].roi = ConfigOf(tools[1]).roi

\* C24: a returned result list of an engine with a position tool starts
\* with the position tool's result, OK or NG, followed by one entry per
\* detection tool in the order of the configuration; without a position
\* tool it holds the detection tools' entries only.
C24_PositionResultFirst ==
    ~IsNone(outcome) =>
        LET r == Val(outcome).results
            k == IF IsNone(position_tool) THEN 0 ELSE 1
        IN /\ Len(r) = Len(tools) + k
           /\ k = 1 => r[1] = position_process(Val(position_tool), Val(image))
           /\ \A i \in 1 .. Len(tools) :
                 /\ r[i + k].tool_type = tools[i].tool_type
                 /\ r[i + k].tool_type # "position_adjust"
                 /\ ~ProcessRaises(tools[i], Val(image)) => r[i + k] = process(tools[i], Val(image))
           /\ \A i \in 1 .. Len(tools) - 1 : tools[i].idx < tools[i + 1].idx

\* A returned list of two entries: the position tool's NG result, then the
\* detection tool's OK result.
C24_Witness ==
    /\ ~IsNone(outcome)
    /\ ~IsNone(position_tool)
    /\ Len(Val(outcome).results) = 2
    /\ Val(outcome).results[1].tool_type = "position_adjust"
    /\ Val(outcome).results[1].status = NG
    /\ Val(outcome).results[2].status = OK

\* C25: for every ROI of positive width and height, wherever its x and y
\* lie, the rectangle extract_roi reads is inside the image and not empty.
C25_ExtractInsideImage ==
    ~IsNone(ret) =>
        LET r == Val(ret)
        IN /\ 0 <= r.x
           /\ r.x + r.width <= ImgW
           /\ 0 <= r.y
           /\ r.y + r.height <= ImgH
           /\ r.width >= 1
           /\ r.height >= 1

\* An ROI left of the image and below it: the last row's first pixel is read.
C25_Witness ==
    /\ ~IsNone(ret)
    /\ Val(call).x < 0
    /\ Val(call).y >= ImgH
    /\ Val(call).width > ImgW
    /\ Val(ret) = [x |-> 0, y |-> ImgH - 1, width |-> ImgW, height |-> 1]

\* The counts the tool takes of the call's master and test images.
MasterCountOf(c) == WhiteCount(c.master, c.roi)
TestCountOf(c) == WhiteCount(c.test, c.roi)
Test2CountOf(c) == WhiteCount(c.test2, c.roi)

\* C26: the matching rate of the area, colour area and edge tools is
\* min(200, testCount * 100 / masterCount): it lies in [0, 200], does not
\* decrease when the test count grows with the master count fixed, and is 0
\* for every test image when the master count is 0.
C26_RateCappedMonotone ==
    ~IsNone(ret) =>
        LET c == Val(call)
            r == Val(ret).rate
            r2 == Val(ret).rate2
            m == MasterCountOf(c)
        IN /\ r.den > 0
           /\ 0 <= r.num
           /\ r.num <= 200 * r.den
           /\ m > 0 => IF TestCountOf(c) * 100 <= 200 * m
                       THEN r.num * m = TestCountOf(c) * 100 * r.den
                       ELSE r.num = 200 * r.den
           /\ TestCountOf(c) <= Test2CountOf(c) => r.num * r2.den <= r2.num * r.den
           /\ m = 0 => r.num = 0

\* One tool, a master count of 1: a test image with no marked pixel rates
\* 0 and one with three rates 200, the cap.
C26_Witness ==
    /\ ~IsNone(ret)
    /\ Val(call).tool_type = "edge_detection"
    /\ MasterCountOf(Val(call)) = 1
    /\ TestCountOf(Val(call)) = 0
    /\ Test2CountOf(Val(call)) >= 3
    /\ Val(ret).rate.num = 0
    /\ Val(ret).rate2 = [num |-> 200, den |-> 1]

\* C27 as stated: a test image that is pixel for pixel the master image
\* rates exactly 100, for every master image.
C27_IdenticalImageRates100 ==
    (~IsNone(ret) /\ Val(call).test = Val(call).master) =>
        Val(ret).rate.num = 100 * Val(ret).rate.den

\* C27: a test image that is pixel for pixel the master image rates exactly
\* 100 when the master count is positive, and 0 when the master ROI holds
\* no marked pixel.
C27_IdenticalImageRates100OrZero ==
    (~IsNone(ret) /\ Val(call).test = Val(call).master) =>
        IF MasterCountOf(Val(call)) > 0
        THEN Val(ret).rate.num = 100 * Val(ret).rate.den
        ELSE Val(ret).rate.num = 0

\* A master image with marked pixels inside and outside the ROI, rated
\* against itself.
C27_Witness ==
    /\ ~IsNone(ret)
    /\ Val(call).test = Val(call).master
    /\ Val(call).tool_type = "area"
    /\ Val(call).roi = AreaRoi
    /\ Val(call).master = Grid
    /\ Val(ret).rate = [num |-> 200, den |-> 2]

\* C28: a second worker is never started for the session while an earlier
\* worker of the session is still executing a cycle.
C28_OneWorkerPerSession ==
    [][ Len(threads') > Len(threads) =>
            \A i \in 1 .. Len(threads) : threads[i].pc # "cycle" ]_vars

\* C29: the session's entry exists only while its inspection runs: once
\* the thread the entry was stored for has ended (a single inspection
\* finished, a continuous worker ended by itself), the entry is gone, and a
\* start_inspection handled while no thread of the session runs is accepted.
C29_EntryOnlyWhileRunning ==
    [][ /\ ~IsNone(active_inspections') => Running(threads'[Val(active_inspections')])
        /\ ( /\ emitted' = "error"
             /\ threads' = threads
             /\ active_inspections' = active_inspections
             /\ ~stop_sleeping' )
           => \E i \in 1 .. Len(threads) : Running(threads[i]) ]_vars

\* The outputs other than BUSY.
NotBusy == Outputs \ { BUSY }

\* C30: a cycle that aborts before the output signalling (the capture
\* returns nothing, or the quality check or the position tool raises)
\* changes no output other than BUSY: no step up to the abort and no step
\* of the abort touches outputs 2..8, so at the raise OK and NG are LOW, no
\* pulse was fired for the cycle, and the custom outputs are as the last
\* completed cycle left them.
C30_AbortedCycleKeepsOutputs ==
    [][ /\ ( \/ pc \in { "begin", "capture", "quality", "position" }
             \/ (pc = "finally" /\ exc # "")
             \/ pc = "caught" )
           => \A n \in NotBusy : output_states'[n] = output_states[n]
        /\ pc' = "caught"
           => /\ ~output_states'[OUT_OK]
              /\ ~output_states'[OUT_NG]
              /\ PulsesOf(cycles') = {}
              /\ callback_log' # << >>
                    => /\ output_states'[4] # output_states'[5]
                       /\ output_states'[6]
                       /\ ~output_states'[7] ]_vars

\* A failed capture after a completed cycle: BUSY is LOW again and the
\* custom outputs the completed cycle raised are still HIGH.
C30_Witness ==
    /\ pc = "caught"
    /\ CaptureFailed
    /\ callback_log # << >>
    /\ ~output_states[BUSY]
    /\ output_states[6]
    /\ output_states[5]
    /\ \A n \in { OUT_OK, OUT_NG } : ~output_states[n]

====
